---- MODULE Spec2Model ----
(***************************************************************************)
(* A model of check_broken_links.py: the recursive walker extract_urls,    *)
(* the path-based remover remove_url, the bounded worker pool that runs    *)
(* check_url_head, and the report / interactive removal loop of main.      *)
(*                                                                         *)
(* Path strings are sequences of one-character strings, so that building a *)
(* path (f"children[{i}]", joined with ".") and re-parsing it (split,      *)
(* startswith, rstrip, int) are modelled by what they do.                  *)
(***************************************************************************)
EXTENDS Integers, Sequences, FiniteSets, TLC

\* ------------------------------------------------------------------ bounds

\* Largest number of JSON nodes in a Document.
MaxNodes == 4
\* Largest number of JSON nodes in a Document remove_url is called on with
\* hand-made paths.
MaxRemoveNodes == 3
\* Largest number of URLs handed to the worker pool.
MaxTasks == 11
\* Largest child index written into a hand-made (possibly stale) path.
MaxIndex == 2

\* ----------------------------------------------------------------- strings

\* The literal "children" of lines 20, 24, 26, 45, 53.
ChildrenStr == <<"c", "h", "i", "l", "d", "r", "e", "n">>

Digits == <<"0", "1", "2", "3", "4", "5", "6", "7", "8", "9">>

IsDigit(c) == \E d \in 1..10 : Digits[d] = c

DigitVal(c) == (CHOOSE d \in 1..10 : Digits[d] = c) - 1

\* str(i) for i >= 0, as the f-string of lines 24 and 26 formats it.
RECURSIVE IntToStr(_)
IntToStr(i) ==
    IF i < 10 THEN <<Digits[i + 1]>>
    ELSE IntToStr(i \div 10) \o <<Digits[(i % 10) + 1]>>

\* f"children[{i}]" (line 24).
ChildKey(i) == ChildrenStr \o <<"[">> \o IntToStr(i) \o <<"]">>

\* The subpath of lines 23-26: no "." is prepended to an empty path.
SubPath(path, i) ==
    IF path = <<>> THEN ChildKey(i) ELSE path \o <<".">> \o ChildKey(i)

\* s.startswith(p)
StartsWith(s, p) == Len(s) >= Len(p) /\ SubSeq(s, 1, Len(p)) = p

\* p in s, for two strings: p is a contiguous substring of s.
IsSubstring(p, s) ==
    \E k \in 0..(Len(s) - Len(p)) : SubSeq(s, k + 1, k + Len(p)) = p

\* path.split("."): "" gives [""], and every "." starts a new, possibly empty, key.
RECURSIVE SplitDot(_)
SplitDot(s) ==
    IF \A k \in 1..Len(s) : s[k] # "." THEN <<s>>
    ELSE LET k == CHOOSE j \in 1..Len(s) :
                      s[j] = "." /\ \A m \in 1..(j - 1) : s[m] # "."
         IN <<SubSeq(s, 1, k - 1)>> \o SplitDot(SubSeq(s, k + 1, Len(s)))

\* key.split("[", 1)[1]: what follows the first "[" (line 46).
AfterBracket(key) ==
    LET k == CHOOSE j \in 1..Len(key) :
                 key[j] = "[" /\ \A m \in 1..(j - 1) : key[m] # "["
    IN SubSeq(key, k + 1, Len(key))

\* s.rstrip("]") (line 46).
RECURSIVE RStripBracket(_)
RStripBracket(s) ==
    IF s # <<>> /\ s[Len(s)] = "]" THEN RStripBracket(SubSeq(s, 1, Len(s) - 1))
    ELSE s

\* s.strip(): int() ignores surrounding blanks.
RECURSIVE StripBlanks(_)
StripBlanks(s) ==
    IF s # <<>> /\ s[1] = " " THEN StripBlanks(Tail(s))
    ELSE IF s # <<>> /\ s[Len(s)] = " " THEN StripBlanks(SubSeq(s, 1, Len(s) - 1))
    ELSE s

RECURSIVE DigitsValue(_)
DigitsValue(s) ==
    IF s = <<>> THEN 0
    ELSE 10 * DigitsValue(SubSeq(s, 1, Len(s) - 1)) + DigitVal(s[Len(s)])

\* int(idx_str) of line 48: [ok |-> FALSE] is the ValueError of line 49.
\* An optional sign and surrounding blanks are accepted, as int() accepts them.
ParseInt(str) ==
    LET s    == StripBlanks(str)
        sign == s # <<>> /\ s[1] \in {"-", "+"}
        body == IF sign THEN Tail(s) ELSE s
    IN IF body # <<>> /\ \A k \in 1..Len(body) : IsDigit(body[k])
       THEN [ok |-> TRUE,
             val |-> IF sign /\ s[1] = "-" THEN 0 - DigitsValue(body)
                     ELSE DigitsValue(body)]
       ELSE [ok |-> FALSE, val |-> 0]

\* ---------------------------------------------------------------- Document

NoUrl == "<no url>"
NoType == "<no type>"

\* The URL strings of the link nodes (one character each).
Urls == {"a", "b"}

\* The characters of a field's string value.
StrChars(v) ==
    CASE v = "url" -> <<"u", "r", "l">>
      [] v = "folder" -> <<"f", "o", "l", "d", "e", "r">>
      [] OTHER -> <<v>>

\* A JSON value met in a children list.  kind "dict" is a mapping; kind "atom"
\* is a number, a boolean or null.  kids says what the mapping holds under
\* "children": nothing ("absent"), a list ("list", the elements in children)
\* or a value that is no list ("scalar", a number).  id is the place of the
\* node in the Document as loaded; no operation of the program reads it.
Atom == [kind |-> "atom", type |-> NoType, url |-> NoUrl, kids |-> "absent",
         children |-> <<>>, id |-> <<>>]

\* The (type, url) fields the mappings of the model carry: link nodes,
\* a "url"-typed node without a url field, a plain folder.
NodeLabels ==
    {<<"url", u>> : u \in Urls} \cup {<<"url", NoUrl>>, <<"folder", NoUrl>>}

\* What a node of the model may be: an atom, or a mapping with one of the
\* NodeLabels and its "children" field absent, a list or a number.
NodeShapes ==
    {<<"atom", NoType, NoUrl, "absent">>, <<"dict", "folder", NoUrl, "scalar">>}
    \cup {<<"dict", l[1], l[2], k>> : l \in NodeLabels, k \in {"absent", "list"}}

\* A Document of n nodes, numbered 1..n in document order, is given by the
\* parent of each node but the first (up) and the shape of each node (shape).
\* up is such a numbering when the parent of node i is node i-1 or one of its
\* ancestors.
RECURSIVE IsAncestorOrSelf(_, _, _)
IsAncestorOrSelf(up, a, i) ==
    IF a = i THEN TRUE ELSE IF i = 1 THEN FALSE ELSE IsAncestorOrSelf(up, a, up[i])

Parents(n) ==
    {up \in [2..n -> 1..n] :
        \A i \in 2..n : up[i] < i /\ IsAncestorOrSelf(up, up[i], i - 1)}

\* The Documents of main's own run: link nodes, folders and atoms.
MainShapes ==
    {sh \in NodeShapes : sh[4] # "scalar" /\ ~(sh[2] = "url" /\ sh[3] = NoUrl)}

\* The shapes of the n nodes, drawn from kinds: only a mapping holding a list
\* under "children" has children.
Shapes(n, up, kinds) ==
    {shape \in [1..n -> kinds] :
        \A i \in 2..n : shape[up[i]][1] = "dict" /\ shape[up[i]][4] = "list"}

\* The elements of a set of numbers, in increasing order.
RECURSIVE Sorted(_)
Sorted(S) ==
    IF S = {} THEN <<>>
    ELSE LET m == CHOOSE x \in S : \A y \in S : x <= y IN <<m>> \o Sorted(S \ {m})

\* The node numbered i, with its subtree; id is the place of the node.
RECURSIVE Build(_, _, _, _, _)
Build(n, up, shape, i, addr) ==
    LET kids == Sorted({j \in 2..n : up[j] = i})
    IN [kind |-> shape[i][1], type |-> shape[i][2], url |-> shape[i][3],
        kids |-> shape[i][4],
        children |-> [k \in 1..Len(kids) |->
                         Build(n, up, shape, kids[k], addr \o <<k - 1>>)],
        id |-> addr]

\* The node at a place (a sequence of 0-based child indices) of a Document.
RECURSIVE NodeAt(_, _)
NodeAt(node, addr) ==
    IF addr = <<>> THEN node ELSE NodeAt(node.children[addr[1] + 1], Tail(addr))

\* The places of a Document: every node reachable through children lists.
RECURSIVE Places(_)
Places(node) ==
    {<<>>} \cup UNION {{<<k - 1>> \o p : p \in Places(node.children[k])} :
                           k \in 1..Len(node.children)}

\* The ids of the nodes of a Document.
Ids(node) == {NodeAt(node, p).id : p \in Places(node)}

\* A link node: a mapping whose type is "url" and that has a url field.
IsLink(node) == node.kind = "dict" /\ node.type = "url" /\ node.url # NoUrl

\* ------------------------------------------------------------ extract_urls

\* Variant of IsUrlNode that leaves out the test "url" in node.
IsUrlNodeTypeOnly(node) == node.type = "url"

\* node.get("type") == "url" and "url" in node (line 16), for a mapping.

IsUrlNode(node) == node.type = "url" /\ node.url # NoUrl

RECURSIVE extract_urls(_, _), ExtractChildren(_, _, _)
extract_urls(node, path) ==
    IF node.kind = "dict"
    THEN (IF IsUrlNode(node)
          THEN <<[url |-> node.url, path |-> path]>> ELSE <<>>)
         \o (IF node.kids = "list" THEN ExtractChildren(node.children, path, 0)
             ELSE <<>>)
    ELSE <<>>

\* The loop of lines 21-27 from child i on.
ExtractChildren(children, path, i) ==
    IF i >= Len(children) THEN <<>>
    ELSE extract_urls(children[i + 1], SubPath(path, i))
         \o ExtractChildren(children, path, i + 1)

\* -------------------------------------------------------------- remove_url

\* A key of the path as remove_url holds it in last_key: an int (line 57)
\* or a field name (line 63).
IntKey(i) == [int |-> TRUE, idx |-> i, name |-> <<>>]

NameKey(key) == [int |-> FALSE, idx |-> 0, name |-> key]

TypeStr == <<"t", "y", "p", "e">>

UrlStr == <<"u", "r", "l">>

\* key in node, for a mapping.
HasKey(node, key) ==
    \/ key = TypeStr /\ node.type # NoType
    \/ key = UrlStr /\ node.url # NoUrl
    \/ key = ChildrenStr /\ node.kids # "absent"

\* Python's "key in v" (lines 53 and 61), by the kind of v: a mapping tests
\* its keys, a string tests for a substring, a list tests its elements (no
\* element of a children list of the model is a string), and a number or
\* null raises TypeError.
KeyIn(key, v) ==
    CASE v.kind = "dict" -> IF HasKey(v, key) THEN "yes" ELSE "no"
      [] v.kind = "str"  -> IF IsSubstring(key, v.s) THEN "yes" ELSE "no"
      [] v.kind = "list" -> "no"
      [] OTHER           -> "TypeError"

\* parent[key] of line 64 for a mapping: a field's value.
FieldValue(node, key) ==
    CASE key = TypeStr -> [kind |-> "str", s |-> StrChars(node.type)]
      [] key = UrlStr  -> [kind |-> "str", s |-> StrChars(node.url)]
      [] OTHER         -> IF node.kids = "list" THEN [kind |-> "list"]
                          ELSE [kind |-> "atom"]

\* Variant of InRange that lets the index one past the end through.
InRangeOffByOne(index, n) == 0 <= index /\ index <= n

\* The bounds test of line 55.

InRange(index, n) == 0 <= index /\ index < n

\* Variant of DelItem that deletes the slice children[index:].
DelSlice(children, index) ==
    LET i == IF index < 0 THEN index + Len(children) ELSE index
    IN SubSeq(children, 1, i)

\* Variant of DelItem that puts null in the place of the element.
DelSetNull(children, index) ==
    LET i == IF index < 0 THEN index + Len(children) ELSE index
    IN [children EXCEPT ![i + 1] = Atom]

\* del children[index] (line 67) for an index the list accepts; a negative
\* index counts from the end.
DelItem(children, index) ==
    LET i == IF index < 0 THEN index + Len(children) ELSE index
    IN SubSeq(children, 1, i) \o SubSeq(children, i + 2, Len(children))

\* del parent[last_key] (line 69) for a mapping.
DelField(node, key) ==
    CASE key = TypeStr -> [node EXCEPT !.type = NoType]
      [] key = UrlStr  -> [node EXCEPT !.url = NoUrl]
      [] OTHER         -> [node EXCEPT !.kids = "absent", !.children = <<>>]

\* The loop of lines 44-64 from the keys left, obj being the value reached,
\* at place addr of the Document.  ret "True" means the loop ran to its end;
\* "False" is a return False; "TypeError" and "IndexError" are raised.
RECURSIVE RemoveLoop(_, _, _, _, _)
RemoveLoop(obj, addr, keys, parent, last_key) ==
    IF keys = <<>> THEN [ret |-> "True", parent |-> parent, last_key |-> last_key]
    ELSE
    LET key  == Head(keys)
        stop(r) == [ret |-> r, parent |-> parent, last_key |-> last_key]
    IN IF StartsWith(key, ChildrenStr \o <<"[">>)
       THEN LET n  == ParseInt(RStripBracket(AfterBracket(key)))
                has == KeyIn(ChildrenStr, obj)
            IN IF ~n.ok THEN stop("False")
               ELSE IF has = "TypeError" THEN stop("TypeError")
               ELSE IF has = "no" THEN stop("False")
               ELSE IF obj.kind # "dict" THEN stop("TypeError")
               ELSE IF obj.kids # "list" THEN stop("False")
               ELSE IF ~InRange(n.val, Len(obj.children)) THEN stop("False")
               ELSE IF ~(0 - Len(obj.children) <= n.val /\ n.val < Len(obj.children))
                    THEN stop("IndexError")
               ELSE LET i == IF n.val < 0 THEN n.val + Len(obj.children) ELSE n.val
                    IN RemoveLoop(obj.children[i + 1], addr \o <<i>>, Tail(keys),
                                  addr, IntKey(n.val))
       ELSE LET has == KeyIn(key, obj)
            IN IF has = "TypeError" THEN stop("TypeError")
               ELSE IF has = "no" THEN stop("False")
               ELSE IF obj.kind # "dict" THEN stop("TypeError")
               ELSE RemoveLoop(FieldValue(obj, key), addr, Tail(keys),
                               addr, NameKey(key))

\* Lines 66-69 on the mapping at place addr of the Document.
RECURSIVE DeleteAt(_, _, _)
DeleteAt(node, addr, last_key) ==
    IF addr = <<>>
    THEN IF last_key.int
         THEN [node EXCEPT !.children = DelItem(node.children, last_key.idx)]
         ELSE DelField(node, last_key.name)
    ELSE [node EXCEPT !.children[addr[1] + 1] =
                          DeleteAt(node.children[addr[1] + 1], Tail(addr), last_key)]

\* remove_url(data, path): what it returns or raises, and the Document after.
remove_url(doc, path) ==
    LET r == RemoveLoop(doc, <<>>, SplitDot(path), <<>>, NameKey(<<>>))
    IN IF r.ret = "True"
       THEN [ret |-> "True", data |-> DeleteAt(doc, r.parent, r.last_key)]
       ELSE [ret |-> r.ret, data |-> doc]

\* ------------------------------------------------------------------- state

VARIABLES
    file,          \* the JSON file on disk (lines 104, 170)
    data,          \* the Document in memory (line 105)
    args_remove,   \* args.remove (line 98)
    net,           \* the outcomes a probe of each URL may meet on the network
    pc,            \* the position of main
    all_urls,      \* line 108: the walker's (url, path) entries
    futures,       \* executor.map's futures, one per URL (line 115)
    results,       \* line 115: the joined (url, status) results
    url_status,    \* line 118: the dict, as its items in insertion order
    broken_links,  \* line 123
    passed,        \* line 137
    pos,           \* the records the loop of line 157 has handled
    removed,       \* line 150
    ret,           \* what the latest remove_url call returned or raised
    arg,           \* the path handed to the latest remove_url call
    before,        \* the Document as it was before the latest remove_url call
    exact,         \* the calls that deleted exactly the node of their record
    parent,        \* batch removal: the place of the parent
    order          \* batch removal: the order of the calls

vars == <<file, data, args_remove, net, pc, all_urls, futures, results,
          url_status, broken_links, passed, pos, removed, ret, arg, before,
          exact, parent, order>>

\* A probe's outcome: an integer HTTP status (line 81) or the text of a
\* RequestException (line 83).
Http(status) == [isint |-> TRUE, status |-> status, error |-> ""]

Err(text) == [isint |-> FALSE, status |-> 0, error |-> text]

\* The state of main once json.load has returned doc (line 105).
Loaded(doc) ==
    /\ file = doc
    /\ data = doc
    /\ before = doc
    /\ all_urls = <<>>
    /\ futures = <<>>
    /\ results = <<>>
    /\ url_status = <<>>
    /\ passed = 0
    /\ pos = 0
    /\ removed = 0
    /\ ret = "none"
    /\ arg = <<>>
    /\ exact = 0

\* The Documents json.load may return: every tree of at most m nodes whose
\* shapes are among kinds.
LoadedWithin(m, kinds) ==
    \E n \in 1..m : \E up \in Parents(n) : \E shape \in Shapes(n, up, kinds) :
        Loaded(Build(n, up, shape, 1, <<>>))

\* Line 108.
ExtractUrls ==
    /\ pc = "extract"
    /\ all_urls' = extract_urls(data, <<>>)
    /\ pc' = "check"
    /\ UNCHANGED <<file, data, args_remove, net, futures, results, url_status,
                   broken_links, passed, pos, removed, ret, arg, before, exact,
                   parent, order>>

\* One call remove_url(data, path) on the Document in memory.
CallRemove(path) ==
    LET r == remove_url(data, path)
    IN /\ before' = data
       /\ arg' = path
       /\ ret' = r.ret
       /\ data' = r.data

\* The path "children[i].children[j]..." of a place.
RECURSIVE PlacePath(_)
PlacePath(p) ==
    IF p = <<>> THEN <<>>
    ELSE (IF Len(p) = 1 THEN <<>>
          ELSE PlacePath(SubSeq(p, 1, Len(p) - 1)) \o <<".">>)
         \o <<"c", "h", "i", "l", "d", "r", "e", "n", "[">>
         \o IntToStr(p[Len(p)]) \o <<"]">>

IsPrefix(p, q) == Len(p) <= Len(q) /\ SubSeq(q, 1, Len(p)) = p

\* The latest call deleted the node with this id, with what hangs under it,
\* and no other node.
DeletedExactly(doc, after, id) ==
    /\ id \in Ids(doc) \ Ids(after)
    /\ \A x \in Ids(doc) \ Ids(after) : IsPrefix(id, x)

\* ------------------------------------------- the walker and the remover

\* remove_url called with a path of the walker, on the Document the walker read.
RemoveEntry ==
    /\ pc = "check"
    /\ \E k \in 1..Len(all_urls) : CallRemove(all_urls[k].path)
    /\ pc' = "called"
    /\ UNCHANGED <<file, args_remove, net, all_urls, futures, results,
                   url_status, broken_links, passed, pos, removed, exact,
                   parent, order>>

InitWalk ==
    /\ pc = "extract"
    /\ LoadedWithin(MaxNodes, NodeShapes)
    /\ args_remove = FALSE
    /\ net = [u \in Urls |-> {}]
    /\ broken_links = <<>>
    /\ parent = <<>>
    /\ order = "none"

NextWalk == ExtractUrls \/ RemoveEntry

SpecWalk == InitWalk /\ [][NextWalk]_vars

\* ------------------------------------------- remove_url on any path

\* The path the walker writes for a sequence of child indices (lines 23-26).
RECURSIVE IndexPath(_)
IndexPath(p) ==
    IF p = <<>> THEN <<>>
    ELSE SubPath(IndexPath(SubSeq(p, 1, Len(p) - 1)), p[Len(p)])

\* Walker paths of one or two steps, valid or stale for the Document at hand.
IndexPaths ==
    {IndexPath(<<i>>) : i \in 0..MaxIndex}
    \cup {IndexPath(<<i, j>>) : i \in 0..MaxIndex, j \in 0..MaxIndex}

\* Paths no walker writes: the empty path, field names, a malformed index, a
\* negative index, a key after a string value.
NamedPaths ==
    {<<>>, TypeStr, UrlStr, ChildrenStr,
     ChildKey(0) \o <<".">> \o UrlStr,
     ChildrenStr \o <<"[", "x", "]">>,
     ChildrenStr \o <<"[", "-", "1", "]">>,
     UrlStr \o <<".">>}

RemoveAny ==
    /\ pc = "call"
    /\ \E path \in IndexPaths \cup NamedPaths : CallRemove(path)
    /\ pc' = "called"
    /\ UNCHANGED <<file, args_remove, net, all_urls, futures, results,
                   url_status, broken_links, passed, pos, removed, exact,
                   parent, order>>

InitRemove ==
    /\ pc = "call"
    /\ LoadedWithin(MaxRemoveNodes, NodeShapes)
    /\ args_remove = FALSE
    /\ net = [u \in Urls |-> {}]
    /\ broken_links = <<>>
    /\ parent = <<>>
    /\ order = "none"

NextRemove == RemoveAny

SpecRemove == InitRemove /\ [][NextRemove]_vars

\* ------------------------------------------- batch removal under one parent

Reverse(s) == [k \in 1..Len(s) |-> s[Len(s) + 1 - k]]

\* The records of the link children of the node at place p: the walker's
\* entries for them, in the walker's order, each classified Broken (404).
ChildRecords(doc, p) ==
    LET entries == extract_urls(doc, <<>>)
        paths   == {PlacePath(p \o <<i>>) : i \in 0..(Len(NodeAt(doc, p).children) - 1)}
        mine    == SelectSeq(entries, LAMBDA e : e.path \in paths)
    IN [k \in 1..Len(mine) |->
           [url |-> mine[k].url, path |-> mine[k].path, code |-> Http(404)]]

\* The id of the node a record was discovered at in the Document on disk.
RecordId(path) ==
    LET p == CHOOSE q \in Places(file) : PlacePath(q) = path
    IN NodeAt(file, p).id

\* One remove_url call of the batch, for the next record.
BatchRemove ==
    /\ pc = "batch"
    /\ pos < Len(broken_links)
    /\ CallRemove(broken_links[pos + 1].path)
    /\ pos' = pos + 1
    /\ removed' = IF ret' = "True" THEN removed + 1 ELSE removed
    /\ exact' = IF ret' = "True"
                   /\ DeletedExactly(data, data', RecordId(broken_links[pos + 1].path))
                THEN exact + 1 ELSE exact
    /\ UNCHANGED <<file, args_remove, net, pc, all_urls, futures, results,
                   url_status, broken_links, passed, parent, order>>

\* A Document with a parent of two or more children, all of them link nodes,
\* and the records of those children in ascending or descending index order.
InitBatch ==
    /\ pc = "batch"
    /\ LoadedWithin(MaxNodes, NodeShapes)
    /\ args_remove = TRUE
    /\ net = [u \in Urls |-> {}]
    /\ parent \in {p \in Places(file) :
                      /\ Len(NodeAt(file, p).children) >= 2
                      /\ \A k \in 1..Len(NodeAt(file, p).children) :
                             IsLink(NodeAt(file, p).children[k])}
    /\ order \in {"ascending", "descending"}
    /\ broken_links = IF order = "ascending" THEN ChildRecords(file, parent)
                      ELSE Reverse(ChildRecords(file, parent))

NextBatch == BatchRemove

SpecBatch == InitBatch /\ [][NextBatch]_vars

\* ------------------------------------------- the worker pool (lines 113-115)

\* ThreadPoolExecutor(max_workers=10), line 114.
MaxWorkers == 10

\* A future before its probe has returned.
NoResult == [url |-> "<pending>", code |-> Err("<pending>")]

\* check_url_head(url, debug), lines 79-92, the request having met outcome:
\* the status of the response (line 81) or the text of the exception (line 83).
check_url_head(url, outcome) == [url |-> url, code |-> outcome]

\* executor.map submits one call per URL, in the order of all_urls (line 115).
Submit ==
    /\ pc = "check"
    /\ Len(futures) < Len(all_urls)
    /\ futures' = Append(futures, [state |-> "queued",
                                   url |-> all_urls[Len(futures) + 1].url,
                                   res |-> NoResult])
    /\ UNCHANGED <<file, data, args_remove, net, pc, all_urls, results,
                   url_status, broken_links, passed, pos, removed, ret, arg,
                   before, exact, parent, order>>

Running == {i \in 1..Len(futures) : futures[i].state = "running"}

\* A free worker takes the call at the head of the queue.
StartProbe ==
    /\ pc = "check"
    /\ Cardinality(Running) < MaxWorkers
    /\ \E i \in 1..Len(futures) :
          /\ futures[i].state = "queued"
          /\ \A j \in 1..(i - 1) : futures[j].state # "queued"
          /\ futures' = [futures EXCEPT ![i].state = "running"]
    /\ UNCHANGED <<file, data, args_remove, net, pc, all_urls, results,
                   url_status, broken_links, passed, pos, removed, ret, arg,
                   before, exact, parent, order>>

\* A running check_url_head returns, in any order among the running ones.
FinishProbe ==
    /\ pc = "check"
    /\ \E i \in Running : \E outcome \in net[futures[i].url] :
          futures' = [futures EXCEPT
                         ![i].state = "done",
                         ![i].res = check_url_head(futures[i].url, outcome)]
    /\ UNCHANGED <<file, data, args_remove, net, pc, all_urls, results,
                   url_status, broken_links, passed, pos, removed, ret, arg,
                   before, exact, parent, order>>

\* Variant of NextResult that yields in completion order: the first future
\* that is done, whatever its place.
NextCompleted(fs) ==
    IF \E i \in 1..Len(fs) : fs[i].state = "done"
    THEN CHOOSE i \in 1..Len(fs) :
             fs[i].state = "done" /\ \A j \in 1..(i - 1) : fs[j].state # "done"
    ELSE CHOOSE i \in 1..Len(fs) : fs[i].state # "yielded"

\* The future whose result executor.map's iterator yields next: the first
\* one, in submission order, that it has not yielded yet.
NextResult(fs) ==
    CHOOSE i \in 1..Len(fs) :
        fs[i].state # "yielded" /\ \A j \in 1..(i - 1) : fs[j].state = "yielded"

\* list(...) takes the next result from the iterator, waiting for its future.
Collect ==
    /\ pc = "check"
    /\ Len(futures) = Len(all_urls)
    /\ Len(results) < Len(futures)
    /\ LET i == NextResult(futures)
       IN /\ futures[i].state = "done"
          /\ results' = Append(results, futures[i].res)
          /\ futures' = [futures EXCEPT ![i].state = "yielded"]
    /\ UNCHANGED <<file, data, args_remove, net, pc, all_urls, url_status,
                   broken_links, passed, pos, removed, ret, arg, before, exact,
                   parent, order>>

\* The with block of line 114 is left once list() has every result.
PoolExit ==
    /\ pc = "check"
    /\ Len(futures) = Len(all_urls)
    /\ Len(results) = Len(futures)
    /\ pc' = "report"
    /\ UNCHANGED <<file, data, args_remove, net, all_urls, futures, results,
                   url_status, broken_links, passed, pos, removed, ret, arg,
                   before, exact, parent, order>>

\* URLs for the pool, one per task.
UrlNames ==
    <<"u01", "u02", "u03", "u04", "u05", "u06", "u07", "u08",
      "u09", "u10", "u11", "u12", "u13", "u14", "u15", "u16">>

PoolUrl(k) == UrlNames[((k - 1) % Len(UrlNames)) + 1]

\* A flat Document: a folder with n link children, each with its own URL.
FlatDoc(n) ==
    [kind |-> "dict", type |-> "folder", url |-> NoUrl, kids |-> "list", id |-> <<>>,
     children |-> [k \in 1..n |->
                      [kind |-> "dict", type |-> "url",
                       url |-> PoolUrl(k),
                       kids |-> "absent", children |-> <<>>, id |-> <<k - 1>>]]]

\* main at line 113, having read a flat Document of up to MaxTasks links.
InitPool ==
    /\ pc = "check"
    /\ \E n \in 1..MaxTasks :
          /\ file = FlatDoc(n)
          /\ data = FlatDoc(n)
          /\ before = FlatDoc(n)
          /\ all_urls = extract_urls(FlatDoc(n), <<>>)
    /\ args_remove = FALSE
    /\ net = [u \in {PoolUrl(k) : k \in 1..MaxTasks} |->
                  IF u = PoolUrl(1) THEN {Http(200), Http(404)}
                  ELSE IF u = PoolUrl(2) THEN {Err("refused")}
                  ELSE {Http(200)}]
    /\ futures = <<>>
    /\ results = <<>>
    /\ url_status = <<>>
    /\ broken_links = <<>>
    /\ passed = 0
    /\ pos = 0
    /\ removed = 0
    /\ ret = "none"
    /\ arg = <<>>
    /\ exact = 0
    /\ parent = <<>>
    /\ order = "none"

NextPool == Submit \/ StartProbe \/ FinishProbe \/ Collect \/ PoolExit

SpecPool == InitPool /\ [][NextPool]_vars

\* ------------------------------------------- main (lines 95-182)

\* url_status[key] = value (line 120): an existing key keeps its place in the
\* dict and takes the new value, a new key is added at the end.
DictSet(items, key, path, code) ==
    IF \E k \in 1..Len(items) : items[k].url = key
    THEN [k \in 1..Len(items) |->
             IF items[k].url = key THEN [url |-> key, path |-> path, code |-> code]
             ELSE items[k]]
    ELSE Append(items, [url |-> key, path |-> path, code |-> code])

\* The loop of lines 119-120 over zip(all_urls, results), from pair k on.
RECURSIVE Combine(_, _, _, _)
Combine(items, entries, res, k) ==
    IF k > Len(entries) \/ k > Len(res) THEN items
    ELSE Combine(DictSet(items, entries[k].url, entries[k].path, res[k].code),
                 entries, res, k + 1)

\* Lines 125-134: a string is broken, an int is broken when it is 404.
IsBrokenCode(code) == IF ~code.isint THEN TRUE ELSE code.status = 404

\* Lines 137-140.
CountPassed(items) ==
    Len(SelectSeq(items, LAMBDA it : it.code.isint /\ it.code.status # 404))

\* Lines 117-153: the dict, the broken links, the counters, the report.
Report ==
    /\ pc = "report"
    /\ url_status' = Combine(<<>>, all_urls, results, 1)
    /\ broken_links' = SelectSeq(url_status', LAMBDA it : IsBrokenCode(it.code))
    /\ passed' = CountPassed(url_status')
    /\ pc' = IF args_remove /\ broken_links' # <<>> THEN "prompt" ELSE "done"
    /\ UNCHANGED <<file, data, args_remove, net, all_urls, futures, results,
                   pos, removed, ret, arg, before, exact, parent, order>>

\* What the user may type at the prompt of line 158.
Responses == {"", "y", "Y", " y", "n", "no"}

\* .strip().lower() of line 158.
StripLower(r) ==
    CASE r = "Y" -> "y"
      [] r = " y" -> "y"
      [] OTHER -> r

\* Lines 157-166 for the next broken link: the prompt, and remove_url when
\* the answer is "" or "y".  An exception of remove_url ends main.
Prompt ==
    /\ pc = "prompt"
    /\ pos < Len(broken_links)
    /\ \E response \in Responses :
          IF StripLower(response) \in {"", "y"}
          THEN /\ CallRemove(broken_links[pos + 1].path)
               /\ removed' = IF ret' = "True" THEN removed + 1 ELSE removed
               /\ exact' = IF ret' = "True"
                              /\ DeletedExactly(data, data',
                                                RecordId(broken_links[pos + 1].path))
                           THEN exact + 1 ELSE exact
               /\ pc' = IF ret' \in {"True", "False"} THEN "prompt" ELSE "crashed"
          ELSE /\ ret' = "kept"
               /\ arg' = broken_links[pos + 1].path
               /\ before' = data
               /\ UNCHANGED <<data, removed, exact, pc>>
    /\ pos' = pos + 1
    /\ UNCHANGED <<file, args_remove, net, all_urls, futures, results,
                   url_status, broken_links, passed, parent, order>>

\* Lines 168-172: the file is written when a removal succeeded.
Finish ==
    /\ pc = "prompt"
    /\ pos = Len(broken_links)
    /\ file' = IF removed > 0 THEN data ELSE file
    /\ pc' = "done"
    /\ UNCHANGED <<data, args_remove, net, all_urls, futures, results,
                   url_status, broken_links, passed, pos, removed, ret, arg,
                   before, exact, parent, order>>

InitMain ==
    /\ pc = "extract"
    /\ LoadedWithin(MaxNodes, MainShapes)
    /\ args_remove \in BOOLEAN
    /\ net = [u \in Urls |-> IF u = "a" THEN {Http(200), Http(404)}
                              ELSE {Http(500), Err("refused")}]
    /\ broken_links = <<>>
    /\ parent = <<>>
    /\ order = "none"

NextMain ==
    \/ ExtractUrls
    \/ Submit \/ StartProbe \/ FinishProbe \/ Collect \/ PoolExit
    \/ Report
    \/ Prompt
    \/ Finish

SpecMain == InitMain /\ [][NextMain]_vars

\* ------------------------------------------------------------ properties

\* Place p comes before place q in depth-first pre-order: p is an ancestor
\* of q, or at the first step where they part p takes the lower child index.
PreOrder(p, q) ==
    /\ p # q
    /\ \/ IsPrefix(p, q)
       \/ \E i \in 1..Len(p) :
             /\ i <= Len(q)
             /\ SubSeq(p, 1, i - 1) = SubSeq(q, 1, i - 1)
             /\ p[i] < q[i]

LinkPlaces(doc) == {p \in Places(doc) : IsLink(NodeAt(doc, p))}

\* The place whose path is the path of the k-th entry of the walker.
EntryPlace(k) == CHOOSE p \in Places(file) : PlacePath(p) = all_urls[k].path

\* The node of a Document with a given id.
NodeById(doc, id) == NodeAt(doc, CHOOSE q \in Places(doc) : NodeAt(doc, q).id = id)

ChildIds(node) == [k \in 1..Len(node.children) |-> node.children[k].id]

\* The place a path of the walker names in the Document before the call.
ArgPlace == CHOOSE p \in Places(before) : PlacePath(p) = arg

\* The latest call was given the walker's path of a leaf link node that has
\* a parent.
LeafLinkCall ==
    /\ pc = "called"
    /\ arg # <<>>
    /\ \E p \in Places(before) : PlacePath(p) = arg
    /\ IsLink(NodeAt(before, ArgPlace))
    /\ NodeAt(before, ArgPlace).children = <<>>

\* C1: every path of the walker is accepted by the remover: remove_url on
\* the unmodified Document with the path of any entry, the entry of a link
\* node at the root included, returns True and deletes the node whose url is
\* the entry's url.
C1_WalkerPathAccepted ==
    pc = "called" =>
        /\ ret = "True"
        /\ \E k \in 1..Len(all_urls) :
              /\ all_urls[k].path = arg
              /\ \E id \in Ids(before) :
                    /\ DeletedExactly(before, data, id)
                    /\ NodeById(before, id).url = all_urls[k].url

\* C7: extract_urls returns exactly one entry per link node, with the node's
\* url and path, in depth-first pre-order; atoms and nodes that are neither
\* link nor container add nothing.
C7_TraversalComplete ==
    pc # "extract" =>
        /\ Len(all_urls) = Cardinality(LinkPlaces(file))
        /\ \A k \in 1..Len(all_urls) :
              \E p \in LinkPlaces(file) :
                 /\ PlacePath(p) = all_urls[k].path
                 /\ NodeAt(file, p).url = all_urls[k].url
        /\ \A j \in 1..Len(all_urls) : \A k \in 1..Len(all_urls) :
              j < k => PreOrder(EntryPlace(j), EntryPlace(k))

\* A Document whose root is no link node, with a link node, a link node
\* under it, and a link node after it: three entries, the descendant's
\* before the sibling's.
C7_Witness ==
    /\ pc = "check"
    /\ Len(all_urls) = 3
    /\ all_urls[2].path = PlacePath(<<0, 0>>)
    /\ all_urls[3].path = PlacePath(<<1>>)

\* C8: one remove_url call with the walker's path of a leaf link node
\* returns True, leaves its parent with one child less, and changes nothing
\* else: the other nodes are all there, each with its fields and with its
\* children in their order.
C8_SingleRemoval ==
    LeafLinkCall =>
        LET up  == SubSeq(ArgPlace, 1, Len(ArgPlace) - 1)
            tid == NodeAt(before, ArgPlace).id
        IN /\ ret = "True"
           /\ Len(NodeAt(data, up).children) = Len(NodeAt(before, up).children) - 1
           /\ Ids(data) = Ids(before) \ {tid}
           /\ data.id = before.id
           /\ \A q \in Places(data) :
                 LET n == NodeAt(data, q)
                     b == NodeById(before, n.id)
                 IN /\ n.kind = b.kind /\ n.type = b.type
                    /\ n.url = b.url /\ n.kids = b.kids
                    /\ ChildIds(n) = SelectSeq(ChildIds(b), LAMBDA x : x # tid)

\* The first of several children, a leaf link node, has been removed.
C8_Witness ==
    /\ LeafLinkCall
    /\ ArgPlace = <<0>>
    /\ Len(before.children) >= 2
    /\ ret = "True"

\* The path steps into a children list at an index past its end, as its
\* last step or as a step before the last.
PastEnd(doc, path) ==
    \E p \in Places(doc) :
        /\ NodeAt(doc, p).kind = "dict"
        /\ NodeAt(doc, p).kids = "list"
        /\ \E j \in Len(NodeAt(doc, p).children)..MaxIndex :
              \/ path = PlacePath(p \o <<j>>)
              \/ \E r \in 0..MaxIndex : path = PlacePath(p \o <<j, r>>)

\* C5: remove_url with a path whose last or an earlier children index is
\* past the end of the children list it addresses returns False and leaves
\* the Document as it was.
C5_PastEndFails ==
    pc = "called" /\ PastEnd(before, arg) => ret = "False" /\ data = before

\* The root has one child and the path steps to a second one, then on.
C5_Witness ==
    /\ pc = "called"
    /\ before.kids = "list"
    /\ Len(before.children) = 1
    /\ arg = PlacePath(<<1, 0>>)
    /\ ret = "False"

\* C3: for a parent of n >= 2 link children whose walker paths are all
\* removed by successive calls: in descending index order every call returns
\* True, each deletes the child it was recorded for, and the parent is left
\* with no child; in ascending index order at least one call returns False
\* or deletes another node than the one it was recorded for.
C3_BatchOrder ==
    pc = "batch" /\ pos = Len(broken_links) =>
        /\ order = "descending" =>
              /\ removed = Len(broken_links)
              /\ exact = Len(broken_links)
              /\ NodeAt(data, parent).children = <<>>
        /\ order = "ascending" => exact < Len(broken_links)

\* Three children removed in ascending order: the first call is right, the
\* second deletes the third child, the third returns False.
C3_Witness ==
    /\ pc = "batch"
    /\ order = "ascending"
    /\ Len(broken_links) = 3
    /\ pos = 3
    /\ removed = 2
    /\ exact = 1
    /\ ret = "False"

\* A probe outcome is Broken when it is an error description or the status 404.
Broken(outcome) == ~outcome.isint \/ outcome.status = 404

\* The walker's entries, each with the outcome of its own probe.
Checked ==
    [i \in 1..Len(all_urls) |->
        [url |-> all_urls[i].url, path |-> all_urls[i].path, code |-> results[i].code]]

Reported == pc \in {"prompt", "done", "crashed"}

\* C2: in a --remove session every confirmed record's remove_url call
\* succeeds and deletes exactly the node the record was discovered at in the
\* Document as loaded.  (Stated for the records of nodes below the root: the
\* record of a link node at the root is the case of C1.)
C2_RemovalOrderSafe ==
    pc \in {"prompt", "crashed"} /\ pos > 0 /\ ret # "kept" /\ arg # <<>> =>
        /\ ret = "True"
        /\ DeletedExactly(before, data, RecordId(arg))

\* C4: the report lists one record for each entry whose outcome is Broken, in
\* the walker's order, each with the path and outcome of its own entry, also
\* when link nodes share a url; Broken + NotBroken = checked = found.
C4_ReportPerEntry ==
    Reported =>
        /\ broken_links = SelectSeq(Checked, LAMBDA e : Broken(e.code))
        /\ Len(broken_links) + passed = Len(url_status)
        /\ Len(url_status) = Len(all_urls)

\* C6: remove_url never raises: a step that does not resolve makes it return
\* False with the Document unmodified, and the removal loop goes on.
C6_RemoveNeverRaises ==
    /\ ret \notin {"TypeError", "IndexError"}
    /\ pc # "crashed"
    /\ ret = "False" => data = before

\* C9: an outcome is Broken iff it is an error description or 404, and
\* exactly the entries with a Broken outcome are in the broken-link list.
C9_BrokenIffListed ==
    Reported =>
        \A i \in 1..Len(all_urls) :
            Broken(results[i].code)
            <=> \E k \in 1..Len(broken_links) : broken_links[k] = Checked[i]

\* C10: whatever the interleaving and the completion order of the probes, at
\* most MaxWorkers of them run at once, the i-th result is the outcome of the
\* probe of the i-th URL, and the joined results are as many as the URLs.
C10_ResultsInRequestOrder ==
    /\ Cardinality(Running) <= MaxWorkers
    /\ \A i \in 1..Len(results) :
          /\ results[i] = futures[i].res
          /\ results[i].url = all_urls[i].url
          /\ results[i].code \in net[all_urls[i].url]
    /\ pc = "report" => Len(results) = Len(all_urls)

\* More URLs than workers, every result joined, the two first probes having
\* met different outcomes.
C10_Witness ==
    /\ pc = "report"
    /\ Len(all_urls) > MaxWorkers
    /\ Len(results) = Len(all_urls)
    /\ results[1].code = Http(404)
    /\ results[2].code = Err("refused")

====
